---------------------------- MODULE Spec2Model ----------------------------
(***************************************************************************)
(* Work distribution of the lithops kubernetes backend                     *)
(* (lithops/serverless/backends/k8s/entry_point.py).                       *)
(*                                                                         *)
(*  - pull protocol: the index dispenser get_id (a threaded HTTP server,   *)
(*    so handlers interleave between their reads and writes of             *)
(*    JOB_INDEXES) and its clients run_job_k8s;                            *)
(*  - the fair-share partitioner calculate_executions;                     *)
(*  - push protocol: receive_range_id, callback (the fan-out) and the      *)
(*    spawned executions run_job_k8s_rabbitmq, which share running_jobs.   *)
(***************************************************************************)
EXTENDS Integers, Sequences, FiniteSets, TLC

(***************************************************************************)
(* Bounds of the model.                                                    *)
(***************************************************************************)
MaxCalls == 3
MaxChunk == 2
MaxCpus == 3
MaxFunctions == 5
MaxPushCpus == 2
MaxPushFunctions == 2
MaxPartCpus == 5
MaxPartFunctions == 12

\* the pods that run run_job_k8s against the one dispenser
Clients == {"client1", "client2"}

\* the pods of the push protocol
Pods == {"pod1", "pod2"}

\* the job key the clients of the model ask for (payload['job_key'])
JobKey == "job"

\* the Done sentinel of get_id ('-1')
Done == -1

\* job_index = None of run_job_k8s: no index received yet
None == -2

VARIABLES
    \* ---- pull protocol
    JOB_INDEXES,    \* the dispenser's dict: job key -> counter
    total_calls,    \* payload['total_calls']
    chunksize,      \* payload['chunksize']
    cpc,            \* per client: where run_job_k8s / its get_id handler is
    tmp,            \* per client: the value its handler read for "+= 1"
    job_index,      \* per client: job_index of run_job_k8s (Done, an index)
    returned,       \* bag of the values get_id has returned
    executed,       \* bag of the call_ids passed to function_handler
    writes,         \* per client: stores into JOB_INDEXES by its current request
    after_done      \* per client: '-1' had been returned when its request began

pullVars == <<JOB_INDEXES, total_calls, chunksize, cpc, tmp, job_index,
              returned, executed, writes, after_done>>

VARIABLES
    \* ---- push protocol, each a function of the pod
    replyQ,         \* messages waiting on the pod's reply queue
    bcastQ,         \* job broadcasts (total_calls) waiting on the pod's queue
    bound,          \* whether the globals below are bound (else NameError)
    range_start,    \* global range_start
    range_end,      \* global range_end
    total_cpus,     \* global total_cpus
    ppc,            \* where the pod's consumer thread is
    cb,             \* the locals of the running callback
    running_jobs,   \* per fan-out: the shared Value('i')
    kids,           \* per fan-out: the spawned processes that still run
    spawned,        \* per fan-out: the job indexes spawned, in order
    cblog           \* per broadcast delivered: what callback did with it

pushVars == <<replyQ, bcastQ, bound, range_start, range_end, total_cpus, ppc, cb,
              running_jobs, kids, spawned, cblog>>

VARIABLES
    \* ---- the partitioner applied to every pod of a cluster
    part_total_cpus,       \* total_cpus of the cluster
    part_total_functions,  \* total_functions of the job
    part_cuts,             \* the slots at which a new pod range starts
    part_done              \* per pod so far: <<range, calculate_executions(..)>>

partVars == <<part_total_cpus, part_total_functions, part_cuts, part_done>>

vars == <<pullVars, pushVars, partVars>>

(***************************************************************************)
(* Bags as functions with a growing domain.                                *)
(***************************************************************************)
EmptyBag == [x \in {} |-> 0]

BagAdd(b, x) ==
    IF x \in DOMAIN b THEN [b EXCEPT ![x] = @ + 1] ELSE b @@ (x :> 1)

RECURSIVE BagAddAll(_, _)
BagAddAll(b, s) ==
    IF s = << >> THEN b ELSE BagAddAll(BagAdd(b, Head(s)), Tail(s))

Min(a, b) == IF a < b THEN a ELSE b

(***************************************************************************)
(* run_job_k8s: the chunks of the job.  payload['call_ids'] holds the      *)
(* total_calls call ids 0 .. total_calls-1 in order.                       *)
(***************************************************************************)
CallIds == [i \in 1 .. total_calls |-> i - 1]

\* lithops.utils.iterchunks: consecutive chunks of size n, the last one
\* possibly shorter
iterchunks(ids, n) ==
    [k \in 1 .. ((Len(ids) + n - 1) \div n) |->
        SubSeq(ids, (k - 1) * n + 1, Min(k * n, Len(ids)))]

call_ids_ranges == iterchunks(CallIds, chunksize)

(***************************************************************************)
(* get_id, one action per read or write of JOB_INDEXES.                    *)
(***************************************************************************)
\* requests.get(url) reaches the dispenser: a handler starts
ClientRequest(c) ==
    /\ UNCHANGED <<pushVars, partVars>>
    /\ writes' = [writes EXCEPT ![c] = 0]
    /\ after_done' = [after_done EXCEPT ![c] = Done \in DOMAIN returned]
    /\ cpc[c] = "request"
    /\ cpc' = [cpc EXCEPT ![c] = "h_check"]
    /\ job_index' = [job_index EXCEPT ![c] = None]
    /\ UNCHANGED <<JOB_INDEXES, total_calls, chunksize, tmp, returned, executed>>

\* requests.get(url) raises: except Exception -> time.sleep(0.1)
ClientRequestFail(c) ==
    /\ UNCHANGED <<pushVars, partVars>>
    /\ UNCHANGED <<writes, after_done>>
    /\ cpc[c] = "request"
    /\ cpc' = [cpc EXCEPT ![c] = "sleep"]
    /\ job_index' = [job_index EXCEPT ![c] = None]
    /\ UNCHANGED <<JOB_INDEXES, total_calls, chunksize, tmp, returned, executed>>

\* a client that gives up after a failed request instead of asking again
ClientRetry_gives_up(c) ==
    /\ UNCHANGED <<pushVars, partVars>>
    /\ UNCHANGED <<writes, after_done>>
    /\ cpc[c] = "sleep"
    /\ job_index[c] = None
    /\ cpc' = [cpc EXCEPT ![c] = "crashed"]
    /\ UNCHANGED <<JOB_INDEXES, total_calls, chunksize, tmp, job_index,
                   returned, executed>>

\* the sleep ends; job_index is still None, so the inner loop asks again
ClientRetry(c) ==
    /\ UNCHANGED <<pushVars, partVars>>
    /\ UNCHANGED <<writes, after_done>>
    /\ cpc[c] = "sleep"
    /\ job_index[c] = None
    /\ cpc' = [cpc EXCEPT ![c] = "request"]
    /\ UNCHANGED <<JOB_INDEXES, total_calls, chunksize, tmp, job_index,
                   returned, executed>>

\* a dispenser that tests the counter first and answers an exhausted job
\* without storing into JOB_INDEXES
GetIdCheck_test_before_increment(c) ==
    /\ UNCHANGED <<pushVars, partVars>>
    /\ UNCHANGED <<writes, after_done>>
    /\ cpc[c] = "h_check"
    /\ cpc' = [cpc EXCEPT ![c] =
                 IF JobKey \notin DOMAIN JOB_INDEXES THEN "h_init"
                 ELSE IF JOB_INDEXES[JobKey] >= total_calls THEN "h_cmp"
                 ELSE "h_incread"]
    /\ UNCHANGED <<JOB_INDEXES, total_calls, chunksize, tmp, job_index,
                   returned, executed>>

\* if jobkey not in JOB_INDEXES
GetIdCheck(c) ==
    /\ UNCHANGED <<pushVars, partVars>>
    /\ UNCHANGED <<writes, after_done>>
    /\ cpc[c] = "h_check"
    /\ cpc' = [cpc EXCEPT ![c] =
                 IF JobKey \notin DOMAIN JOB_INDEXES THEN "h_init" ELSE "h_incread"]
    /\ UNCHANGED <<JOB_INDEXES, total_calls, chunksize, tmp, job_index,
                   returned, executed>>

\* JOB_INDEXES[jobkey] = 0
GetIdInit(c) ==
    /\ UNCHANGED <<pushVars, partVars>>
    /\ writes' = [writes EXCEPT ![c] = @ + 1]
    /\ UNCHANGED after_done
    /\ cpc[c] = "h_init"
    /\ JOB_INDEXES' = [k \in DOMAIN JOB_INDEXES \cup {JobKey} |->
                         IF k = JobKey THEN 0 ELSE JOB_INDEXES[k]]
    /\ cpc' = [cpc EXCEPT ![c] = "h_cmp"]
    /\ UNCHANGED <<total_calls, chunksize, tmp, job_index, returned, executed>>

\* JOB_INDEXES[jobkey] += 1, the read
GetIdIncRead(c) ==
    /\ UNCHANGED <<pushVars, partVars>>
    /\ UNCHANGED <<writes, after_done>>
    /\ cpc[c] = "h_incread"
    /\ tmp' = [tmp EXCEPT ![c] = JOB_INDEXES[JobKey]]
    /\ cpc' = [cpc EXCEPT ![c] = "h_incwrite"]
    /\ UNCHANGED <<JOB_INDEXES, total_calls, chunksize, job_index, returned, executed>>

\* the value the "+= 1" of get_id stores
IncrementOf(v) == v + 1

\* JOB_INDEXES[jobkey] += 1, the write
GetIdIncWrite(c) ==
    /\ UNCHANGED <<pushVars, partVars>>
    /\ writes' = [writes EXCEPT ![c] = @ + 1]
    /\ UNCHANGED after_done
    /\ cpc[c] = "h_incwrite"
    /\ JOB_INDEXES' = [JOB_INDEXES EXCEPT ![JobKey] = IncrementOf(tmp[c])]
    /\ tmp' = [tmp EXCEPT ![c] = 0]
    /\ cpc' = [cpc EXCEPT ![c] = "h_cmp"]
    /\ UNCHANGED <<total_calls, chunksize, job_index, returned, executed>>

\* the response reaches the client: job_index = int(res.text)
Respond(c, v) ==
    /\ job_index' = [job_index EXCEPT ![c] = v]
    /\ returned' = BagAdd(returned, v)
    /\ cpc' = [cpc EXCEPT ![c] = "got"]

\* '-1' if JOB_INDEXES[jobkey] >= int(total_calls) else ...
GetIdCompare(c) ==
    /\ UNCHANGED <<pushVars, partVars>>
    /\ UNCHANGED <<writes, after_done>>
    /\ cpc[c] = "h_cmp"
    /\ IF JOB_INDEXES[JobKey] >= total_calls
         THEN Respond(c, Done)
         ELSE /\ cpc' = [cpc EXCEPT ![c] = "h_str"]
              /\ UNCHANGED <<job_index, returned>>
    /\ UNCHANGED <<JOB_INDEXES, total_calls, chunksize, tmp, executed>>

\* ... else str(JOB_INDEXES[jobkey]): the dict is read a second time
GetIdStr(c) ==
    /\ UNCHANGED <<pushVars, partVars>>
    /\ UNCHANGED <<writes, after_done>>
    /\ cpc[c] = "h_str"
    /\ Respond(c, JOB_INDEXES[JobKey])
    /\ UNCHANGED <<JOB_INDEXES, total_calls, chunksize, tmp, executed>>

(***************************************************************************)
(* run_job_k8s, after the response.                                        *)
(***************************************************************************)
\* if job_index == -1: job_finished = True
ClientFinish(c) ==
    /\ UNCHANGED <<pushVars, partVars>>
    /\ UNCHANGED <<writes, after_done>>
    /\ cpc[c] = "got"
    /\ job_index[c] = Done
    /\ cpc' = [cpc EXCEPT ![c] = "finished"]
    /\ UNCHANGED <<JOB_INDEXES, total_calls, chunksize, tmp, job_index,
                   returned, executed>>

\* call_ids = call_ids_ranges[job_index]; function_handler(payload)
ClientExecute(c) ==
    /\ UNCHANGED <<pushVars, partVars>>
    /\ UNCHANGED <<writes, after_done>>
    /\ cpc[c] = "got"
    /\ job_index[c] # Done
    /\ job_index[c] + 1 \in DOMAIN call_ids_ranges
    /\ executed' = BagAddAll(executed, call_ids_ranges[job_index[c] + 1])
    /\ cpc' = [cpc EXCEPT ![c] = "request"]
    /\ UNCHANGED <<JOB_INDEXES, total_calls, chunksize, tmp, job_index, returned>>

\* call_ids_ranges[job_index] raises IndexError: run_job_k8s ends
ClientIndexError(c) ==
    /\ UNCHANGED <<pushVars, partVars>>
    /\ UNCHANGED <<writes, after_done>>
    /\ cpc[c] = "got"
    /\ job_index[c] # Done
    /\ job_index[c] + 1 \notin DOMAIN call_ids_ranges
    /\ cpc' = [cpc EXCEPT ![c] = "crashed"]
    /\ UNCHANGED <<JOB_INDEXES, total_calls, chunksize, tmp, job_index,
                   returned, executed>>

(***************************************************************************)
(* Push protocol.                                                          *)
(***************************************************************************)
\* calculate_executions with the upper end of the straddling test exclusive
\* ("remaining_executions < range[1]")
calculate_executions_exclusive_end(tcpus, pod_cpus, rng, total_functions) ==
    LET base == total_functions \div tcpus
        remaining_executions == total_functions % tcpus
        executions == pod_cpus * base
    IN  IF rng[1] <= remaining_executions /\ remaining_executions < rng[2]
          THEN <<executions + (remaining_executions - rng[1]), base>>
          ELSE IF remaining_executions > rng[1]
                 THEN <<executions + pod_cpus, base>>
                 ELSE <<executions, base>>

\* calculate_executions that gives a straddling pod the whole remainder
\* ("executions += remaining_executions")
calculate_executions_whole_remainder(tcpus, pod_cpus, rng, total_functions) ==
    LET base == total_functions \div tcpus
        remaining_executions == total_functions % tcpus
        executions == pod_cpus * base
    IN  IF rng[1] <= remaining_executions /\ remaining_executions <= rng[2]
          THEN <<executions + remaining_executions, base>>
          ELSE IF remaining_executions > rng[1]
                 THEN <<executions + pod_cpus, base>>
                 ELSE <<executions, base>>

\* calculate_executions(total_cpus, pod_cpus, range, total_functions):
\* <<executions, base>>
calculate_executions(tcpus, pod_cpus, rng, total_functions) ==
    LET base == total_functions \div tcpus
        remaining_executions == total_functions % tcpus
        executions == pod_cpus * base
    IN  IF rng[1] <= remaining_executions /\ remaining_executions <= rng[2]
          THEN <<executions + (remaining_executions - rng[1]), base>>
          ELSE IF remaining_executions > rng[1]
                 THEN <<executions + pod_cpus, base>>
                 ELSE <<executions, base>>

\* the locals of callback while no callback runs
IdleCb ==
    [total_calls |-> 0, requested_cpus |-> 0, pod_cpus |-> 0,
     total_executions |-> 0, bases_executions |-> 0,
     i |-> 0, bases |-> 0, execution_id |-> 0, rd |-> 0]

\* a process that has been started and has not ended:
\*   running: in function_handler, with a job index inside payload['call_ids']
\*   doomed : its job index is outside payload['call_ids'] (IndexError)
\*   pending: bag of the values read for "running_jobs.value -= 1" and not
\*            yet written back
\*   failed : ended by an exception, before "running_jobs.value -= 1"
NoKids == [running |-> 0, doomed |-> 0, pending |-> EmptyBag, failed |-> 0]

BagRemove(b, x) ==
    IF b[x] = 1 THEN [y \in DOMAIN b \ {x} |-> b[y]] ELSE [b EXCEPT ![x] = @ - 1]

RECURSIVE BagSize(_)
BagSize(b) ==
    IF DOMAIN b = {} THEN 0
    ELSE LET x == CHOOSE y \in DOMAIN b : TRUE
         IN  b[x] + BagSize([y \in DOMAIN b \ {x} |-> b[y]])

\* the processes of one fan-out that have been started and have not ended
InFlight(k) == k.running + k.doomed + BagSize(k.pending)

\* the fan-out the running callback of pod p works on (the last one)
Cur(p) == Len(running_jobs[p])

\* receive_range_id: every message on the reply queue sets the globals
ReceiveRangeId(p) ==
    /\ UNCHANGED <<pullVars, partVars>>
    /\ ppc[p] = "consume"
    /\ replyQ[p] # << >>
    /\ LET msg == Head(replyQ[p])
       IN  /\ range_start' = [range_start EXCEPT ![p] = msg.range_start]
           /\ range_end' = [range_end EXCEPT ![p] = msg.range_end]
           /\ total_cpus' = [total_cpus EXCEPT ![p] = msg.total_cpus]
    /\ bound' = [bound EXCEPT ![p] = TRUE]
    /\ replyQ' = [replyQ EXCEPT ![p] = Tail(@)]
    /\ UNCHANGED <<bcastQ, ppc, cb, running_jobs, kids, spawned, cblog>>

\* the entry callback leaves in cblog
LogEntry(p, tc, what) ==
    [total_calls |-> tc, range_start |-> range_start[p],
     range_end |-> range_end[p], total_cpus |-> total_cpus[p], result |-> what]

\* callback with the globals unbound: "total_calls > range_start" raises
\* NameError, start_consuming re-raises it and the pod closes the connection
CallbackNameError(p) ==
    /\ UNCHANGED <<pullVars, partVars>>
    /\ ppc[p] = "consume"
    /\ bcastQ[p] # << >>
    /\ ~bound[p]
    /\ bcastQ' = [bcastQ EXCEPT ![p] = Tail(@)]
    /\ ppc' = [ppc EXCEPT ![p] = "crashed"]
    /\ cblog' = [cblog EXCEPT ![p] = Append(@, LogEntry(p, Head(bcastQ[p]), "NameError"))]
    /\ UNCHANGED <<replyQ, bound, range_start, range_end, total_cpus, cb,
                   running_jobs, kids, spawned>>

\* the test of callback with ">=" for ">"
Relevant_inclusive(tc, rs) == tc >= rs

\* whether callback goes past "if total_calls > range_start"
Relevant(tc, rs) == tc > rs

\* callback, "else:  # do nothing / return"
CallbackIgnore(p) ==
    /\ UNCHANGED <<pullVars, partVars>>
    /\ ppc[p] = "consume"
    /\ bcastQ[p] # << >>
    /\ bound[p]
    /\ ~Relevant(Head(bcastQ[p]), range_start[p])
    /\ bcastQ' = [bcastQ EXCEPT ![p] = Tail(@)]
    /\ cblog' = [cblog EXCEPT ![p] = Append(@, LogEntry(p, Head(bcastQ[p]), "ignored"))]
    /\ UNCHANGED <<replyQ, bound, range_start, range_end, total_cpus, ppc, cb,
                   running_jobs, kids, spawned>>

\* requested_cpus with the limit of the test off by one
\* ("range_end > total_calls")
RequestedCpus_limit_off_by_one(tc, rs, re) ==
    IF re > tc THEN tc - rs ELSE re - rs + 1

\* requested_cpus: "if range_end > total_calls - 1: total_calls - range_start
\* else: range_end - range_start + 1"
RequestedCpus(tc, rs, re) ==
    IF re > tc - 1 THEN tc - rs ELSE re - rs + 1

\* callback up to "running_jobs = Value('i', 0)" and the choice of the loop
CallbackBegin(p) ==
    /\ UNCHANGED <<pullVars, partVars>>
    /\ ppc[p] = "consume"
    /\ bcastQ[p] # << >>
    /\ bound[p]
    /\ Relevant(Head(bcastQ[p]), range_start[p])
    /\ LET tc == Head(bcastQ[p])
           requested == RequestedCpus(tc, range_start[p], range_end[p])
           pod_cpus == range_end[p] - range_start[p] + 1
           ce == calculate_executions(total_cpus[p], pod_cpus,
                                      <<range_start[p], range_end[p]>>, tc)
       IN  /\ cb' = [cb EXCEPT ![p] =
                       [IdleCb EXCEPT !.total_calls = tc,
                                      !.requested_cpus = requested,
                                      !.pod_cpus = pod_cpus,
                                      !.total_executions = ce[1],
                                      !.bases_executions = ce[2]]]
           /\ ppc' = [ppc EXCEPT ![p] =
                        IF ce[1] = requested
                          THEN (IF requested > 0 THEN "simple_read" ELSE "consume")
                          ELSE (IF pod_cpus > 0 THEN "round0_read" ELSE "round0_end")]
           /\ cblog' = [cblog EXCEPT ![p] = Append(@, LogEntry(p, tc, "fanout"))]
    /\ bcastQ' = [bcastQ EXCEPT ![p] = Tail(@)]
    /\ running_jobs' = [running_jobs EXCEPT ![p] = Append(@, 0)]
    /\ kids' = [kids EXCEPT ![p] = Append(@, NoKids)]
    /\ spawned' = [spawned EXCEPT ![p] = Append(@, << >>)]
    /\ UNCHANGED <<replyQ, bound, range_start, range_end, total_cpus>>

\* "running_jobs.value += 1", the read (all three loops)
CallbackIncRead(p) ==
    /\ UNCHANGED <<pullVars, partVars>>
    /\ ppc[p] \in {"simple_read", "round0_read", "over_read"}
    /\ cb' = [cb EXCEPT ![p].rd = running_jobs[p][Cur(p)]]
    /\ ppc' = [ppc EXCEPT ![p] =
                 CASE ppc[p] = "simple_read" -> "simple_write"
                   [] ppc[p] = "round0_read" -> "round0_write"
                   [] ppc[p] = "over_read" -> "over_write"]
    /\ UNCHANGED <<replyQ, bcastQ, bound, range_start, range_end, total_cpus,
                   running_jobs, kids, spawned, cblog>>

\* "running_jobs.value += 1", the write, and Process(...).start() for job_index
Spawn(p, job_index_) ==
    /\ running_jobs' = [running_jobs EXCEPT ![p][Cur(p)] = cb[p].rd + 1]
    /\ spawned' = [spawned EXCEPT ![p][Cur(p)] = Append(@, job_index_)]
    /\ kids' = [kids EXCEPT ![p][Cur(p)] =
                  IF job_index_ < cb[p].total_calls
                    THEN [@ EXCEPT !.running = @ + 1]
                    ELSE [@ EXCEPT !.doomed = @ + 1]]

\* the simple case: for i in range(requested_cpus)
SimpleSpawn(p) ==
    /\ UNCHANGED <<pullVars, partVars>>
    /\ ppc[p] = "simple_write"
    /\ Spawn(p, range_start[p] + cb[p].i)
    /\ IF cb[p].i + 1 < cb[p].requested_cpus
         THEN /\ cb' = [cb EXCEPT ![p].i = @ + 1, ![p].rd = 0]
              /\ ppc' = [ppc EXCEPT ![p] = "simple_read"]
         ELSE /\ cb' = [cb EXCEPT ![p] = IdleCb]
              /\ ppc' = [ppc EXCEPT ![p] = "consume"]
    /\ UNCHANGED <<replyQ, bcastQ, bound, range_start, range_end, total_cpus, cblog>>

\* the overflow case, round 0: for i in range(pod_cpus)
Round0Spawn(p) ==
    /\ UNCHANGED <<pullVars, partVars>>
    /\ ppc[p] = "round0_write"
    /\ Spawn(p, range_start[p] + cb[p].i)
    /\ cb' = [cb EXCEPT ![p].i = @ + 1, ![p].rd = 0]
    /\ ppc' = [ppc EXCEPT ![p] =
                 IF cb[p].i + 1 < cb[p].pod_cpus THEN "round0_read" ELSE "round0_end"]
    /\ UNCHANGED <<replyQ, bcastQ, bound, range_start, range_end, total_cpus, cblog>>

\* the loops with the test of the while inclusive
\* ("execution_id <= pod_cpus")
LoopControl_while_inclusive(c) ==
    IF c.execution_id <= c.pod_cpus /\ c.total_executions # 0
      THEN <<"over_check", c>>
      ELSE IF c.total_executions # 0 /\ c.bases + 1 < c.bases_executions + 2
                /\ 0 < c.pod_cpus
             THEN <<"over_check", [c EXCEPT !.bases = @ + 1, !.execution_id = 0]>>
             ELSE <<"consume", IdleCb>>

\* where the loops "for bases in range(bases_executions + 2)" and
\* "while execution_id < pod_cpus and total_executions != 0" go from the
\* locals c, after the body of the while or at the entry of a round:
\* the same round, the next round that runs its while, or the end
LoopControl(c) ==
    IF c.execution_id < c.pod_cpus /\ c.total_executions # 0
      THEN <<"over_check", c>>
      ELSE IF c.total_executions # 0 /\ c.bases + 1 < c.bases_executions + 2
                /\ 0 < c.pod_cpus
             THEN <<"over_check", [c EXCEPT !.bases = @ + 1, !.execution_id = 0]>>
             ELSE <<"consume", IdleCb>>

\* total_executions = total_executions - pod_cpus, and the entry of the
\* rounds (bases = 0, execution_id = 0)
Round0End(p) ==
    /\ UNCHANGED <<pullVars, partVars>>
    /\ ppc[p] = "round0_end"
    /\ LET c == [cb[p] EXCEPT !.total_executions = @ - cb[p].pod_cpus,
                              !.bases = 0, !.execution_id = 0]
           lc == LoopControl(c)
       IN  /\ ppc' = [ppc EXCEPT ![p] = lc[1]]
           /\ cb' = [cb EXCEPT ![p] = lc[2]]
    /\ UNCHANGED <<replyQ, bcastQ, bound, range_start, range_end, total_cpus,
                   running_jobs, kids, spawned, cblog>>

\* an admission test that admits always
Admits_always(value, pod_cpus) == TRUE

\* the admission test "running_jobs.value != pod_cpus"
Admits(value, pod_cpus) == value # pod_cpus

\* if running_jobs.value != pod_cpus: ... else: pass (poll again)
OverflowCheck(p) ==
    /\ UNCHANGED <<pullVars, partVars>>
    /\ ppc[p] = "over_check"
    /\ IF Admits(running_jobs[p][Cur(p)], cb[p].pod_cpus)
         THEN ppc' = [ppc EXCEPT ![p] = "over_read"]
         ELSE UNCHANGED ppc
    /\ UNCHANGED <<replyQ, bcastQ, bound, range_start, range_end, total_cpus, cb,
                   running_jobs, kids, spawned, cblog>>

\* the job index with the round counted from 0 ("total_cpus * bases")
OverflowIndex_round_from_0(p) ==
    (total_cpus[p] * cb[p].bases) + range_start[p] + cb[p].execution_id

\* the job index of round bases + 1, slot execution_id
OverflowIndex(p) ==
    (total_cpus[p] * (cb[p].bases + 1)) + range_start[p] + cb[p].execution_id

\* the body of the while: increment, start, execution_id += 1,
\* total_executions -= 1
OverflowSpawn(p) ==
    /\ UNCHANGED <<pullVars, partVars>>
    /\ ppc[p] = "over_write"
    /\ Spawn(p, OverflowIndex(p))
    /\ LET lc == LoopControl([cb[p] EXCEPT !.execution_id = @ + 1,
                                          !.total_executions = @ - 1,
                                          !.rd = 0])
       IN  /\ ppc' = [ppc EXCEPT ![p] = lc[1]]
           /\ cb' = [cb EXCEPT ![p] = lc[2]]
    /\ UNCHANGED <<replyQ, bcastQ, bound, range_start, range_end, total_cpus, cblog>>

(***************************************************************************)
(* run_job_k8s_rabbitmq, the process of fan-out b of pod p.                *)
(***************************************************************************)
\* payload['call_ids'][job_index] or function_handler(payload) raises: the
\* process ends without reaching "running_jobs.value -= 1"
ExecutionFails(p, b) ==
    /\ UNCHANGED <<pullVars, partVars>>
    /\ \E kind \in {"running", "doomed"} :
          /\ kids[p][b][kind] > 0
          /\ kids' = [kids EXCEPT ![p][b][kind] = @ - 1, ![p][b].failed = @ + 1]
    /\ UNCHANGED <<replyQ, bcastQ, bound, range_start, range_end, total_cpus, ppc, cb,
                   running_jobs, spawned, cblog>>

\* function_handler returns; "running_jobs.value -= 1", the read
ExecutionDecRead(p, b) ==
    /\ UNCHANGED <<pullVars, partVars>>
    /\ kids[p][b].running > 0
    /\ kids' = [kids EXCEPT ![p][b].running = @ - 1,
                            ![p][b].pending = BagAdd(@, running_jobs[p][b])]
    /\ UNCHANGED <<replyQ, bcastQ, bound, range_start, range_end, total_cpus, ppc, cb,
                   running_jobs, spawned, cblog>>

\* the value "running_jobs.value -= 1" stores
DecrementOf(v) == v - 1

\* "running_jobs.value -= 1", the write; the process ends
ExecutionDecWrite(p, b) ==
    /\ UNCHANGED <<pullVars, partVars>>
    /\ \E v \in DOMAIN kids[p][b].pending :
          /\ running_jobs' = [running_jobs EXCEPT ![p][b] = DecrementOf(v)]
          /\ kids' = [kids EXCEPT ![p][b].pending = BagRemove(@, v)]
    /\ UNCHANGED <<replyQ, bcastQ, bound, range_start, range_end, total_cpus, ppc, cb,
                   spawned, cblog>>

\* the assignments the allocator can send: a contiguous range of the slots
\* 0 .. total_cpus-1
Assignments(maxcpus) ==
    {m \in [range_start : 0 .. maxcpus - 1, range_end : 0 .. maxcpus - 1,
            total_cpus : 1 .. maxcpus] :
        m.range_start <= m.range_end /\ m.range_end <= m.total_cpus - 1}

\* the state of a pod after start-up: nothing received yet
PodsStarted ==
    /\ bound = [p \in Pods |-> FALSE]
    /\ range_start = [p \in Pods |-> 0]
    /\ range_end = [p \in Pods |-> 0]
    /\ total_cpus = [p \in Pods |-> 0]
    /\ ppc = [p \in Pods |-> "consume"]
    /\ cb = [p \in Pods |-> IdleCb]
    /\ running_jobs = [p \in Pods |-> << >>]
    /\ kids = [p \in Pods |-> << >>]
    /\ spawned = [p \in Pods |-> << >>]
    /\ cblog = [p \in Pods |-> << >>]

\* no partition under way
PartIdle ==
    /\ part_total_cpus = 1
    /\ part_total_functions = 0
    /\ part_cuts = {}
    /\ part_done = << >>

\* no push pod and no message
PushIdle ==
    /\ replyQ = [p \in Pods |-> << >>]
    /\ bcastQ = [p \in Pods |-> << >>]
    /\ PodsStarted

\* no pull client and no dispenser request
PullIdle ==
    /\ JOB_INDEXES = [k \in {} |-> 0]
    /\ total_calls = 0
    /\ chunksize = 1
    /\ cpc = [c \in Clients |-> "finished"]
    /\ tmp = [c \in Clients |-> 0]
    /\ job_index = [c \in Clients |-> None]
    /\ returned = EmptyBag
    /\ executed = EmptyBag
    /\ writes = [c \in Clients |-> 0]
    /\ after_done = [c \in Clients |-> FALSE]

NextPush ==
    \E p \in Pods :
        \/ ReceiveRangeId(p)
        \/ CallbackNameError(p)
        \/ CallbackIgnore(p)
        \/ CallbackBegin(p)
        \/ CallbackIncRead(p)
        \/ SimpleSpawn(p)
        \/ Round0Spawn(p)
        \/ Round0End(p)
        \/ OverflowCheck(p)
        \/ OverflowSpawn(p)
        \/ \E b \in 1 .. Len(kids[p]) : ExecutionFails(p, b)
        \/ \E b \in 1 .. Len(kids[p]) : ExecutionDecRead(p, b)
        \/ \E b \in 1 .. Len(kids[p]) : ExecutionDecWrite(p, b)

\* one pod, which announced its capacity; its assignment and one job
\* broadcast are on their way, and arrive in either order
InitFan ==
    /\ PullIdle
    /\ PartIdle
    /\ \E m \in Assignments(MaxCpus), f \in 0 .. MaxFunctions :
          /\ replyQ = [p \in Pods |-> IF p = "pod1" THEN <<m>> ELSE << >>]
          /\ bcastQ = [p \in Pods |-> IF p = "pod1" THEN <<f>> ELSE << >>]
    /\ PodsStarted

SpecFan == InitFan /\ [][NextPush]_vars

\* one pod; one or two messages are on their way on its reply queue and one
\* or two job broadcasts on its broadcast queue
QueueLens == 1 .. 2

InitPush ==
    /\ PullIdle
    /\ PartIdle
    /\ \E n \in QueueLens, k \in QueueLens :
       \E ms \in [1 .. n -> Assignments(MaxPushCpus)],
          fs \in [1 .. k -> 0 .. MaxPushFunctions] :
          /\ replyQ = [p \in Pods |-> IF p = "pod1" THEN ms ELSE << >>]
          /\ bcastQ = [p \in Pods |-> IF p = "pod1" THEN fs ELSE << >>]
    /\ PodsStarted

SpecPush == InitPush /\ [][NextPush]_vars

\* a cluster of one or two pods whose ranges [0, k-1] and [k, t-1] partition
\* the slots 0 .. t-1; every pod is sent its assignment and the one broadcast
InitCluster ==
    /\ PullIdle
    /\ PartIdle
    /\ \E t \in 1 .. MaxCpus, k \in 1 .. MaxCpus, f \in 0 .. MaxFunctions :
          /\ k <= t
          /\ replyQ = [p \in Pods |->
                         IF p = "pod1"
                           THEN <<[range_start |-> 0, range_end |-> k - 1,
                                   total_cpus |-> t]>>
                           ELSE IF k < t
                                  THEN <<[range_start |-> k, range_end |-> t - 1,
                                          total_cpus |-> t]>>
                                  ELSE << >>]
          /\ bcastQ = [p \in Pods |-> IF p = "pod1" \/ k < t THEN <<f>> ELSE << >>]
    /\ PodsStarted

SpecCluster == InitCluster /\ [][NextPush]_vars

(***************************************************************************)
(* The partitioner over a whole cluster: calculate_executions is applied   *)
(* to the pod ranges of a partition of 0 .. total_cpus-1, one pod a step.  *)
(***************************************************************************)
\* the first slot of the next pod range
PartNextStart ==
    IF part_done = << >> THEN 0 ELSE part_done[Len(part_done)].range[2] + 1

\* the last slot of the range that starts at slot a
PartRangeEnd(a) ==
    CHOOSE e \in a .. part_total_cpus - 1 :
        /\ e + 1 \in part_cuts \cup {part_total_cpus}
        /\ \A x \in a .. e - 1 : x + 1 \notin part_cuts

\* callback's call of the partitioner for the next pod:
\* pod_cpus = range_end - range_start + 1
PartitionPod ==
    /\ PartNextStart < part_total_cpus
    /\ LET a == PartNextStart
           b == PartRangeEnd(a)
           ce == calculate_executions(part_total_cpus, b - a + 1, <<a, b>>,
                                      part_total_functions)
       IN  part_done' = Append(part_done,
                               [range |-> <<a, b>>, executions |-> ce[1], base |-> ce[2]])
    /\ UNCHANGED <<part_total_cpus, part_total_functions, part_cuts>>
    /\ UNCHANGED <<pullVars, pushVars>>

InitPart ==
    /\ PullIdle
    /\ PushIdle
    /\ part_total_cpus \in 1 .. MaxPartCpus
    /\ part_total_functions \in 0 .. MaxPartFunctions
    /\ part_cuts \in SUBSET (1 .. part_total_cpus - 1)
    /\ part_done = << >>

NextPart == PartitionPod

SpecPart == InitPart /\ [][NextPart]_vars

InitPull ==
    /\ PushIdle
    /\ PartIdle
    /\ JOB_INDEXES = [k \in {} |-> 0]
    /\ total_calls \in 1 .. MaxCalls
    /\ chunksize \in 1 .. MaxChunk
    /\ cpc = [c \in Clients |-> "request"]
    /\ tmp = [c \in Clients |-> 0]
    /\ job_index = [c \in Clients |-> None]
    /\ returned = EmptyBag
    /\ executed = EmptyBag
    /\ writes = [c \in Clients |-> 0]
    /\ after_done = [c \in Clients |-> FALSE]

NextPull ==
    \E c \in Clients :
        \/ ClientRequest(c)
        \/ ClientRequestFail(c)
        \/ ClientRetry(c)
        \/ GetIdCheck(c)
        \/ GetIdInit(c)
        \/ GetIdIncRead(c)
        \/ GetIdIncWrite(c)
        \/ GetIdCompare(c)
        \/ GetIdStr(c)
        \/ ClientFinish(c)
        \/ ClientExecute(c)
        \/ ClientIndexError(c)

SpecPull == InitPull /\ [][NextPull]_vars


(* Properties.                                                             *)
(***************************************************************************)
\* the cblog entries of the broadcasts that started a fan-out: entry b is
\* the one of running_jobs[p][b], kids[p][b], spawned[p][b]
IsFanout(e) == e.result = "fanout"
FanoutLog(p) == SelectSeq(cblog[p], IsFanout)

\* pod_cpus of fan-out b of pod p
PodCpusOf(p, b) == FanoutLog(p)[b].range_end - FanoutLog(p)[b].range_start + 1

\* how often job index i has been spawned by pod p, and by the cluster
SpawnCountPod(p, i) ==
    BagSize([b \in 1 .. Len(spawned[p]) |->
                Cardinality({k \in 1 .. Len(spawned[p][b]) : spawned[p][b][k] = i})])
SpawnCount(i) == BagSize([p \in Pods |-> SpawnCountPod(p, i)])

\* C1: for one job key and total_calls = N, under any interleaving of the
\* concurrent get_id handlers, the non-sentinel values returned are exactly
\* 0 .. N-1: none is returned to two requests, none lies outside 0 .. N-1,
\* and once a request has been answered Done none of 0 .. N-1 is missing.
C1_DispensedExactlyOnce ==
    /\ \A v \in DOMAIN returned :
          v # Done => (returned[v] <= 1 /\ v \in 0 .. total_calls - 1)
    /\ Done \in DOMAIN returned =>
          \A v \in 0 .. total_calls - 1 : v \in DOMAIN returned

\* C2: in the pull protocol no call_id of the job is passed to the
\* execution engine (function_handler) more than once, by any pod.
C2_NoCallIdExecutedTwice ==
    \A id \in DOMAIN executed : executed[id] <= 1

\* C3: over an exhaustive partition of 0 .. total_cpus-1 into contiguous pod
\* ranges, the executions returned by calculate_executions for all the pods
\* add up to total_functions.
C3_PartitionConservation ==
    PartNextStart = part_total_cpus =>
        BagSize([k \in 1 .. Len(part_done) |-> part_done[k].executions])
            = part_total_functions

\* a partition of three or more pods with a remainder, one pod inside the
\* remainder zone, one straddling its boundary and one beyond it
C3_Witness ==
    /\ PartNextStart = part_total_cpus
    /\ Len(part_done) >= 3
    /\ LET r == part_total_functions % part_total_cpus
       IN  /\ part_total_functions > part_total_cpus
           /\ \E k \in 1 .. Len(part_done) : part_done[k].range[2] < r
           /\ \E k \in 1 .. Len(part_done) :
                 part_done[k].range[1] < r /\ r <= part_done[k].range[2]
           /\ \E k \in 1 .. Len(part_done) : part_done[k].range[1] > r

\* every pod of the cluster has been delivered its assignment and then the
\* broadcast, and its callback has returned
AllFanoutsDone ==
    \A p \in Pods :
        /\ replyQ[p] = << >> /\ bcastQ[p] = << >>
        /\ ppc[p] = "consume"
        /\ bound[p] <=> cblog[p] # << >>

\* total_calls of the cluster's one broadcast
ClusterCalls == cblog["pod1"][1].total_calls

\* C4: when the broadcast has been delivered to every pod of the partition
\* and every callback has returned, each job index in 0 .. total_calls-1 has
\* been spawned exactly once in the cluster, and no other index.
C4_EveryIndexSpawnedOnce ==
    AllFanoutsDone =>
        /\ \A i \in 0 .. ClusterCalls - 1 : SpawnCount(i) = 1
        /\ \A p \in Pods : \A b \in 1 .. Len(spawned[p]) :
              \A k \in 1 .. Len(spawned[p][b]) :
                 spawned[p][b][k] \in 0 .. ClusterCalls - 1

\* two pods, both with a fan-out, one of them with overflow rounds
C4_Witness ==
    /\ AllFanoutsDone
    /\ \A p \in Pods : Len(spawned[p]) = 1 /\ spawned[p][1] # << >>
    /\ \E p \in Pods : Len(spawned[p][1]) > range_end[p] - range_start[p] + 1
    /\ ClusterCalls % total_cpus["pod1"] # 0

\* C5: in every state of a fan-out the value of running_jobs is at most
\* pod_cpus = range_end - range_start + 1.
C5_RunningJobsAtMostPodCpus ==
    \A p \in Pods : \A b \in 1 .. Len(running_jobs[p]) :
        running_jobs[p][b] <= PodCpusOf(p, b)

\* the overflow loop polls with the counter at pod_cpus while an execution
\* is between the read and the write of its decrement
C5_Witness ==
    \E p \in Pods :
        /\ ppc[p] = "over_check"
        /\ running_jobs[p][1] = PodCpusOf(p, 1)
        /\ kids[p][1].pending # EmptyBag
        /\ PodCpusOf(p, 1) >= 2

\* C6: during a fan-out the executions spawned and not yet completed never
\* number more than pod_cpus.
C6_InFlightAtMostPodCpus ==
    \A p \in Pods : \A b \in 1 .. Len(kids[p]) :
        InFlight(kids[p][b]) <= PodCpusOf(p, b)

\* C7: every spawned execution that has ended has decremented running_jobs,
\* whether the execution engine returned or failed: no execution has ended
\* without its decrement.
C7_EveryEndedExecutionDecremented ==
    \A p \in Pods : \A b \in 1 .. Len(kids[p]) : kids[p][b].failed = 0

\* C8: the delivery of a broadcast with total_calls <= range_start spawns
\* nothing, raises nothing and leaves the pod as it was: the range
\* assignment, the consumer loop, the counters and the processes of earlier
\* fan-outs.
C8_IrrelevantBroadcastIgnored ==
    [][\A p \in Pods :
          (/\ ppc[p] = "consume" /\ bound[p] /\ bcastQ[p] # << >>
           /\ bcastQ'[p] = Tail(bcastQ[p])
           /\ Head(bcastQ[p]) <= range_start[p])
          => (/\ spawned' = spawned /\ kids' = kids
              /\ running_jobs' = running_jobs
              /\ ppc'[p] = "consume" /\ cb' = cb
              /\ bound' = bound /\ range_start' = range_start
              /\ range_end' = range_end /\ total_cpus' = total_cpus)]_vars

\* a pod ignored a broadcast (total_calls <= range_start) and then ran the
\* fan-out of a later one
C8_Witness ==
    \E p \in Pods : \E i, j \in 1 .. Len(cblog[p]) :
        /\ i < j
        /\ cblog[p][i].result = "ignored"
        /\ cblog[p][i].total_calls <= cblog[p][i].range_start
        /\ cblog[p][j].result = "fanout"
        /\ spawned[p] # << >> /\ spawned[p][1] # << >>

\* C9: once the pod has its range assignment, range_start, range_end and
\* total_cpus never change, whatever message arrives next.
C9_AssignmentImmutable ==
    [][\A p \in Pods :
          bound[p] => (/\ range_start'[p] = range_start[p]
                       /\ range_end'[p] = range_end[p]
                       /\ total_cpus'[p] = total_cpus[p])]_vars

\* C10: a broadcast delivered before the assignment does not end the pod's
\* consumer loop.
C10_UnassignedBroadcastKeepsConsuming ==
    \A p \in Pods : ppc[p] # "crashed"

C13_CounterMonotoneNoReuse ==
    [][/\ (JobKey \notin DOMAIN JOB_INDEXES /\ JobKey \in DOMAIN JOB_INDEXES')
            => JOB_INDEXES'[JobKey] = 0
       /\ JobKey \in DOMAIN JOB_INDEXES
            => JOB_INDEXES'[JobKey] >= JOB_INDEXES[JobKey]
       /\ \A v \in DOMAIN returned' : v # Done => returned'[v] = 1]_vars

\* C18: every index a client received that is not -1 selects an existing
\* chunk of call_ids_ranges
C18_IndexSelectsExistingChunk ==
    \A c \in Clients :
        (cpc[c] = "got" /\ job_index[c] # Done)
            => job_index[c] + 1 \in DOMAIN call_ids_ranges

\* C19: once no client can take a further step, every client has stopped on
\* -1 and every call id of the job has been executed
C19_AllStoppedOnDoneAllExecuted ==
    (\A c \in Clients : cpc[c] \in {"finished", "crashed"})
        => /\ \A c \in Clients : cpc[c] = "finished"
           /\ \A i \in 0 .. total_calls - 1 : i \in DOMAIN executed

\* C20: a request that began after some request had returned -1 returns -1
C20_DoneIsSticky ==
    \A c \in Clients :
        (cpc[c] = "got" /\ after_done[c]) => job_index[c] = Done

(***************************************************************************)
(* calculate_executions in closed form.                                    *)
(***************************************************************************)
\* C14: for every pod range [a, b] of the cluster, calculate_executions
\* returns base = total_functions div total_cpus and executions =
\* pod_cpus * base + the number of slots of the range below the remainder:
\* remainder - a when the range straddles the remainder, pod_cpus when it
\* lies inside the remainder zone, 0 when it lies beyond it
C14_ExecutionsClosedForm ==
    \A k \in 1 .. Len(part_done) :
        LET a == part_done[k].range[1]
            b == part_done[k].range[2]
            pod_cpus == b - a + 1
            base == part_total_functions \div part_total_cpus
            remainder == part_total_functions % part_total_cpus
            extra == part_done[k].executions - pod_cpus * base
        IN  /\ part_done[k].base = base
            /\ extra = Cardinality({s \in a .. b : s < remainder})
            /\ (a <= remainder /\ remainder <= b) => extra = remainder - a
            /\ b < remainder => extra = pod_cpus
            /\ a > remainder => extra = 0

\* pods of one cluster in each of the three positions, the straddling one
\* with slots on both sides of the remainder
C14_Witness ==
    LET remainder == part_total_functions % part_total_cpus
    IN  /\ part_total_functions > part_total_cpus
        /\ \E k \in 1 .. Len(part_done) :
              /\ part_done[k].range[1] < remainder
              /\ remainder <= part_done[k].range[2]
              /\ part_done[k].executions > 0
        /\ \E k \in 1 .. Len(part_done) :
              part_done[k].range[2] < remainder /\ part_done[k].range[1] > 0
        /\ \E k \in 1 .. Len(part_done) : part_done[k].range[1] > remainder

(***************************************************************************)
(* The indices of a fan-out.                                               *)
(***************************************************************************)
\* requestedSlots and totalExecutions of fan-out b of pod p, from the
\* assignment and the broadcast it was started with
RequestedSlots(p, b) ==
    Min(PodCpusOf(p, b), FanoutLog(p)[b].total_calls - FanoutLog(p)[b].range_start)

TotalExecutions(p, b) ==
    calculate_executions(FanoutLog(p)[b].total_cpus, PodCpusOf(p, b),
                         <<FanoutLog(p)[b].range_start, FanoutLog(p)[b].range_end>>,
                         FanoutLog(p)[b].total_calls)[1]

\* the callback of fan-out b of pod p has returned
FanoutReturned(p, b) == b < Len(spawned[p]) \/ ppc[p] = "consume"

\* C15: a fan-out whose totalExecutions equals requestedSlots spawns the
\* indices range_start + i, i = 0 .. requestedSlots-1, in this order and
\* nothing else: a prefix of them while it runs, all of them when the
\* callback has returned, and it never enters round 0 or an overflow round
C15_SimpleCaseSpawnsRequestedSlots ==
    \A p \in Pods : \A b \in 1 .. Len(spawned[p]) :
        TotalExecutions(p, b) = RequestedSlots(p, b) =>
            LET want == [i \in 1 .. RequestedSlots(p, b) |->
                            FanoutLog(p)[b].range_start + i - 1]
            IN  /\ Len(spawned[p][b]) <= Len(want)
                /\ spawned[p][b] = SubSeq(want, 1, Len(spawned[p][b]))
                /\ FanoutReturned(p, b) => spawned[p][b] = want
                /\ ~FanoutReturned(p, b) => ppc[p] \in {"simple_read", "simple_write"}

\* a returned fan-out of the simple case with two or more executions, on a
\* range that total_calls cuts short
C15_Witness ==
    \E p \in Pods :
        /\ Len(spawned[p]) = 1
        /\ FanoutReturned(p, 1)
        /\ TotalExecutions(p, 1) = RequestedSlots(p, 1)
        /\ Len(spawned[p][1]) >= 2
        /\ Len(spawned[p][1]) < PodCpusOf(p, 1)

\* C16: when the callback of a fan-out with totalExecutions # requestedSlots
\* has returned, it has spawned exactly totalExecutions executions, on
\* pairwise distinct indices below total_calls: range_start + i in round 0,
\* total_cpus * r + range_start + offset (r >= 1, offset < pod_cpus) after
C16_OverflowSpawnsTotalExecutions ==
    \A p \in Pods : \A b \in 1 .. Len(spawned[p]) :
        (TotalExecutions(p, b) # RequestedSlots(p, b) /\ FanoutReturned(p, b)) =>
            LET e == FanoutLog(p)[b]
                s == spawned[p][b]
                pod_cpus == PodCpusOf(p, b)
            IN  /\ Len(s) = TotalExecutions(p, b)
                /\ \A k, l \in 1 .. Len(s) : k # l => s[k] # s[l]
                /\ \A k \in 1 .. Len(s) : s[k] \in 0 .. e.total_calls - 1
                /\ \A k \in 1 .. Len(s) :
                      IF k <= pod_cpus
                        THEN s[k] = e.range_start + (k - 1)
                        ELSE \E r \in 1 .. e.total_calls, offset \in 0 .. pod_cpus - 1 :
                                s[k] = e.total_cpus * r + e.range_start + offset

\* a returned fan-out with a full round 0, a full overflow round and a
\* partial last round
C16_Witness ==
    \E p \in Pods :
        /\ Len(spawned[p]) = 1
        /\ FanoutReturned(p, 1)
        /\ TotalExecutions(p, 1) # RequestedSlots(p, 1)
        /\ PodCpusOf(p, 1) >= 2
        /\ Len(spawned[p][1]) > 2 * PodCpusOf(p, 1)
        /\ Len(spawned[p][1]) % PodCpusOf(p, 1) # 0

(***************************************************************************)
(* Termination of the fan-out.                                             *)
(***************************************************************************)
\* C17: the callback never spins forever in the admission poll: whenever it
\* polls and every execution it spawned has ended, so that no decrement of
\* running_jobs is still to come, the admission test lets it through
C17_PollNeverBlockedForever ==
    \A p \in Pods :
        (ppc[p] = "over_check" /\ InFlight(kids[p][Cur(p)]) = 0)
            => Admits(running_jobs[p][Cur(p)], cb[p].pod_cpus)

(***************************************************************************)
(* running_jobs as the count of the executions in flight.                  *)
(***************************************************************************)
\* C21: in every state of a fan-out running_jobs is not negative and equals
\* the number of its executions spawned and not yet finished, however the
\* callback's increment and the executions' decrements interleave
C21_RunningJobsCountsInFlight ==
    \A p \in Pods : \A b \in 1 .. Len(running_jobs[p]) :
        /\ running_jobs[p][b] >= 0
        /\ running_jobs[p][b] = InFlight(kids[p][b])

\* the executions of all the fan-outs of pod p that are in flight
InFlightOfPod(p) == BagSize([b \in 1 .. Len(kids[p]) |-> InFlight(kids[p][b])])

\* the largest pod_cpus any fan-out of pod p was started with
MaxPodCpusOf(p) ==
    CHOOSE n \in {PodCpusOf(p, b) : b \in 1 .. Len(kids[p])} :
        \A b \in 1 .. Len(kids[p]) : PodCpusOf(p, b) <= n

\* C22: when a pod has started fan-outs for several broadcasts, the
\* executions in flight of all of them together never number more than
\* pod_cpus
C22_InFlightAcrossBroadcastsAtMostPodCpus ==
    \A p \in Pods :
        Len(kids[p]) >= 2 => InFlightOfPod(p) <= MaxPodCpusOf(p)

=============================================================================
